---------------------------- MODULE Spec2Model ----------------------------
(***************************************************************************)
(* A model of the tokens.net connector (js/tokens.js): request signing,    *)
(* the market catalog builder, the trade / order / balance normalizers and *)
(* the error classifier.                                                   *)
(*                                                                         *)
(* JavaScript values are tagged records, so that a number, a string, NaN   *)
(* and undefined can sit in the same place:                                *)
(*    [t |-> "undefined"]            undefined                             *)
(*    [t |-> "NaN"]                  NaN                                   *)
(*    [t |-> "number", v |-> n]      a number                              *)
(*    [t |-> "string", v |-> s]      a string                              *)
(*    [t |-> "object", v |-> f]      an object with own properties f       *)
(*    [t |-> "inherited", v |-> k]   the member k of Object.prototype      *)
(***************************************************************************)
EXTENDS Integers, Sequences, FiniteSets, TLC

VARIABLES
    handleErrorsCall,      \* one call of handleErrors: its arguments and outcome
    parseOrderStatusCall,  \* one call of parseOrderStatus: its argument and result
    exchangePairs,         \* the pair records the exchange lists now
    fetchMarketsCall,      \* the last call of fetchMarkets: response and outcome
    parseTradesCall,       \* one call of parseTrades: its arguments and result
    parseOrderCall,        \* one call of parseOrder: its argument and outcome
    credentials,           \* apiKey and secret of the connector, undefined when not set
    clock,                 \* this.milliseconds (), the clock
    markets,               \* this.markets: undefined until the catalog is loaded
    calls,                 \* per caller, the call it has in progress
    nonces                 \* the nonces sign has put in a nonce header, in order

errorsVars == <<handleErrorsCall>>
statusVars == <<parseOrderStatusCall>>
marketsVars == <<exchangePairs, fetchMarketsCall>>
tradesVars == <<parseTradesCall>>
orderVars == <<parseOrderCall>>
connectorVars == <<credentials, clock, markets, calls, nonces>>
pureVars == <<errorsVars, statusVars, marketsVars, tradesVars, orderVars>>
vars == <<pureVars, connectorVars>>

\* A call that has not been made (the value of the variables a specification
\* does not use).
NoCall == [state |-> "none"]

(***************************************************************************)
(* JavaScript values                                                       *)
(***************************************************************************)
Undefined == [t |-> "undefined"]
NaN == [t |-> "NaN"]
Num(n) == [t |-> "number", v |-> n]
Str(s) == [t |-> "string", v |-> s]
Obj(f) == [t |-> "object", v |-> f]

\* An object with the properties of f that are not undefined.
ObjOf(f) == Obj([ k \in { j \in DOMAIN f : f[j] # Undefined } |-> f[k] ])

\* An array value.
Arr(seq) == [t |-> "array", v |-> seq]

\* The empty object {}.
EmptyObject == Obj(<<>>)

\* The property names every object literal inherits from Object.prototype.
ObjectPrototypeKeys ==
    { "constructor", "toString", "toLocaleString", "valueOf", "hasOwnProperty",
      "isPrototypeOf", "propertyIsEnumerable", "__proto__" }

\* The members of Object.prototype that `new` accepts: only `constructor`
\* (Object itself); the others are methods, or the prototype object.
Constructible == { "constructor" }

\* o[k] of a plain object: the own property, else the member inherited from
\* Object.prototype, else undefined.  o undefined is read as in safeString.
Prop(o, k) ==
    IF o.t # "object" THEN Undefined
    ELSE IF k \in DOMAIN o.v THEN o.v[k]
    ELSE IF k \in ObjectPrototypeKeys THEN [t |-> "inherited", v |-> k]
    ELSE Undefined

Digits == <<"0", "1", "2", "3", "4", "5", "6", "7", "8", "9">>

RECURSIVE NatToString(_)
NatToString(n) ==
    IF n < 10 THEN Digits[n + 1]
    ELSE NatToString(n \div 10) \o Digits[(n % 10) + 1]

\* String (x) of a number or a string (numbers here are integers).
JsString(x) ==
    IF x.t = "string" THEN x.v
    ELSE IF x.t = "number"
         THEN (IF x.v < 0 THEN "-" \o NatToString(0 - x.v) ELSE NatToString(x.v))
    ELSE x.t

\* The property key JavaScript makes of a value used as a key (k in o, o[k]).
ToKey(x) == JsString(x)

\* safeString (o, k): the own property k of o as a string when it is a
\* string or a number, else undefined.
SafeString(o, k) ==
    IF o.t = "object" /\ k \in DOMAIN o.v /\ o.v[k].t \in {"string", "number"}
    THEN Str(JsString(o.v[k]))
    ELSE Undefined

\* The JavaScript operator `k in o` on a plain object: own and inherited
\* properties.
HasProperty(k, o) ==
    \/ ToKey(k) \in DOMAIN o.v
    \/ ToKey(k) \in ObjectPrototypeKeys

(***************************************************************************)
(* Strings                                                                 *)
(***************************************************************************)
UpperCase == "ABCDEFGHIJKLMNOPQRSTUVWXYZ"
LowerCase == "abcdefghijklmnopqrstuvwxyz"

\* The character c lowercased.
LowerChar(c) ==
    IF \E i \in 1..Len(UpperCase) : SubSeq(UpperCase, i, i) = c
    THEN LET i == CHOOSE j \in 1..Len(UpperCase) : SubSeq(UpperCase, j, j) = c
         IN  SubSeq(LowerCase, i, i)
    ELSE c

\* s.toLowerCase ()
RECURSIVE ToLowerCase(_)
ToLowerCase(s) ==
    IF Len(s) = 0 THEN s
    ELSE LowerChar(SubSeq(s, 1, 1)) \o ToLowerCase(SubSeq(s, 2, Len(s)))

\* The position of the first character sep of s, 0 when there is none.
IndexOf(s, sep) ==
    IF \E i \in 1..Len(s) : SubSeq(s, i, i) = sep
    THEN CHOOSE i \in 1..Len(s) :
            /\ SubSeq(s, i, i) = sep
            /\ \A j \in 1..(i - 1) : SubSeq(s, j, j) # sep
    ELSE 0

\* s.split (sep) for a one-character separator: the sequence of the parts.
RECURSIVE Split(_, _)
Split(s, sep) ==
    LET i == IndexOf(s, sep) IN
    IF i = 0 THEN << s >>
    ELSE << SubSeq(s, 1, i - 1) >> \o Split(SubSeq(s, i + 1, Len(s)), sep)

\* parts[i] of an array: undefined past its end.
At(parts, i) == IF i \in 1..Len(parts) THEN Str(parts[i]) ELSE Undefined

IsDigit(c) == \E i \in 1..10 : Digits[i] = c
DigitValue(c) == (CHOOSE i \in 1..10 : Digits[i] = c) - 1

\* The length of the longest prefix of s made of digits.
RECURSIVE DigitPrefix(_)
DigitPrefix(s) ==
    IF Len(s) > 0 /\ IsDigit(SubSeq(s, 1, 1))
    THEN 1 + DigitPrefix(SubSeq(s, 2, Len(s)))
    ELSE 0

\* The number a string of digits writes.
RECURSIVE DigitsToNat(_)
DigitsToNat(s) ==
    IF Len(s) = 0 THEN 0
    ELSE 10 * DigitsToNat(SubSeq(s, 1, Len(s) - 1)) + DigitValue(SubSeq(s, Len(s), Len(s)))

(***************************************************************************)
(* Numbers.  A number is an integer n, [t |-> "number", v |-> n], or a     *)
(* decimal fraction that is no integer, [t |-> "number", v |-> m, e |-> k] *)
(* for m / 10^k with k > 0 and m no multiple of 10.                        *)
(***************************************************************************)
RECURSIVE Pow(_, _)
Pow(b, n) == IF n = 0 THEN 1 ELSE b * Pow(b, n - 1)

RECURSIVE Decimal(_, _)
Decimal(m, k) ==
    IF k = 0 THEN Num(m)
    ELSE IF m % 10 = 0 THEN Decimal(m \div 10, k - 1)
    ELSE [t |-> "number", v |-> m, e |-> k]

IsNumber(x) == x.t = "number"
IsInteger(x) == x.t = "number" /\ DOMAIN x = { "t", "v" }

\* parseFloat (x) of a string: the longest prefix digits[.digits] after
\* leading blanks, NaN when there is none (signs and exponents are not among
\* the strings of this model); of a number, that number.
RECURSIVE ParseFloat(_)
ParseFloat(x) ==
    IF x.t = "number" THEN x
    ELSE IF x.t # "string" THEN NaN
    ELSE IF Len(x.v) > 0 /\ SubSeq(x.v, 1, 1) = " "
    THEN ParseFloat(Str(SubSeq(x.v, 2, Len(x.v))))
    ELSE LET s == x.v
             n == DigitPrefix(s)
             rest == SubSeq(s, n + 1, Len(s))
             hasPoint == Len(rest) > 0 /\ SubSeq(rest, 1, 1) = "."
             f == IF hasPoint THEN DigitPrefix(SubSeq(rest, 2, Len(rest))) ELSE 0
         IN  IF n = 0 /\ f = 0 THEN NaN
             ELSE Decimal(DigitsToNat(SubSeq(s, 1, n)) * Pow(10, f)
                            + DigitsToNat(SubSeq(rest, 2, f + 1)), f)

\* parseInt (x): the integer the leading digits of String (x) write.
ParseInt(x) ==
    IF IsInteger(x) /\ x.v >= 0 THEN x
    ELSE IF x.t = "string"
    THEN LET n == DigitPrefix(x.v) IN
         IF n = 0 THEN NaN ELSE Num(DigitsToNat(SubSeq(x.v, 1, n)))
    ELSE NaN

\* Math.pow (10, -p)
PowTenMinus(p) ==
    IF ~IsInteger(p) THEN NaN
    ELSE IF p.v >= 0 THEN Decimal(1, p.v)
    ELSE Num(Pow(10, 0 - p.v))

(***************************************************************************)
(* Arithmetic.  A JavaScript number is a binary floating-point number: the *)
(* result of - and * is the exact result rounded to the nearest number     *)
(* with a significand of so many bits, ties to the even significand.  The  *)
(* model keeps the rounding rule and scales the 53 bits of a double down   *)
(* to MantissaBits; its arithmetic is on integers.                         *)
(***************************************************************************)
MantissaBits == 12

\* The number of low bits an integer n >= 0 loses to fit the significand.
RECURSIVE LostBits(_)
LostBits(n) == IF n < Pow(2, MantissaBits) THEN 0 ELSE 1 + LostBits(n \div 2)

Representable(z) ==
    LET n == IF z < 0 THEN 0 - z ELSE z IN n % Pow(2, LostBits(n)) = 0

RoundNat(n) ==
    LET u == Pow(2, LostBits(n))
        q == n \div u
        r == n % u
    IN  IF 2 * r > u \/ (2 * r = u /\ q % 2 = 1) THEN (q + 1) * u ELSE q * u

\* The exact integer z rounded to the nearest representable number.
RoundFloat(z) == IF z < 0 THEN 0 - RoundNat(0 - z) ELSE RoundNat(z)

\* a - b
FSub(a, b) ==
    IF IsInteger(a) /\ IsInteger(b) THEN Num(RoundFloat(a.v - b.v)) ELSE NaN

\* a + b
FAdd(a, b) ==
    IF IsInteger(a) /\ IsInteger(b) THEN Num(RoundFloat(a.v + b.v)) ELSE NaN

\* a * b
FMul(a, b) ==
    IF IsInteger(a) /\ IsInteger(b) THEN Num(RoundFloat(a.v * b.v)) ELSE NaN

\* Math.abs (a)
Abs(a) ==
    IF IsInteger(a) THEN Num(IF a.v < 0 THEN 0 - a.v ELSE a.v)
    ELSE IF IsNumber(a) THEN a
    ELSE NaN

\* safeFloat (o, k, default): the property k of o as a number when it is a
\* number or a string that parses as one, else the default.
SafeFloat(o, k, default) ==
    LET x == IF o.t = "object" /\ k \in DOMAIN o.v THEN o.v[k] ELSE Undefined
        n == IF x.t \in { "number", "string" } THEN ParseFloat(x) ELSE NaN
    IN  IF IsNumber(n) THEN n ELSE default

\* safeString2 (o, k1, k2)
SafeString2(o, k1, k2) ==
    IF SafeString(o, k1) # Undefined THEN SafeString(o, k1) ELSE SafeString(o, k2)

\* iso8601 (timestamp): the rendering of a timestamp as a date, kept as the
\* timestamp it renders; undefined when the timestamp is no number.
Iso8601(timestamp) ==
    IF IsInteger(timestamp) THEN [t |-> "iso8601", v |-> timestamp.v] ELSE Undefined

(***************************************************************************)
(* parseTrade and parseTrades                                              *)
(***************************************************************************)
ParseTrade(trade, market) ==
    LET side == SafeString(trade, "type")
        price0 == SafeFloat(trade, "price", Undefined)
        amount0 == SafeFloat(trade, "amount", Undefined)
        id == SafeString2(trade, "tid", "id")
        timestamp == FMul(ParseInt(Prop(trade, "datetime")), Num(1000))
        cost0 == SafeFloat(trade, "cost", Undefined)
        price == IF market # Undefined
                 THEN SafeFloat(trade, market.symbolId.v, price0) ELSE price0
        amount == IF market # Undefined
                  THEN SafeFloat(trade, market.baseId.v, amount0) ELSE amount0
        cost1 == IF market # Undefined
                 THEN SafeFloat(trade, market.quoteId.v, cost0) ELSE cost0
        symbol == IF market # Undefined THEN market.symbol ELSE Undefined
        cost2 == IF cost1 = Undefined /\ price # Undefined /\ amount # Undefined
                 THEN FMul(price, amount) ELSE cost1
        cost == IF cost2 # Undefined THEN Abs(cost2) ELSE cost2
    IN  [ amount |-> amount,
          id |-> id,
          info |-> trade,
          order |-> Undefined,
          price |-> price,
          timestamp |-> timestamp,
          datetime |-> Iso8601(timestamp),
          type |-> Undefined,
          side |-> side,
          symbol |-> symbol,
          cost |-> cost ]

\* a[key] < b[key] as sortBy compares two numbers.
Less(a, b) == IsInteger(a) /\ IsInteger(b) /\ a.v < b.v

\* x put into the sorted sequence s behind every entry that is not greater.
RECURSIVE InsertBy(_, _, _)
InsertBy(s, x, key) ==
    IF Len(s) = 0 THEN << x >>
    ELSE IF Less(x[key], s[Len(s)][key])
    THEN Append(InsertBy(SubSeq(s, 1, Len(s) - 1), x, key), s[Len(s)])
    ELSE Append(s, x)

\* sortBy (array, key): a stable sort, ascending.
RECURSIVE SortBy(_, _)
SortBy(array, key) ==
    IF Len(array) = 0 THEN << >>
    ELSE InsertBy(SortBy(SubSeq(array, 1, Len(array) - 1), key), array[Len(array)], key)

\* filterBySymbolSinceLimit (array, symbol, since, limit): the entries of the
\* symbol (if given) with timestamp >= since (if given), cut to the first
\* limit entries (if given).
FilterBySymbolSinceLimit(array, symbol, since, limit) ==
    LET Keep(entry) ==
            /\ symbol # Undefined => entry.symbol = symbol
            /\ since # Undefined =>
                  (IsInteger(entry.timestamp) /\ entry.timestamp.v >= since.v)
        kept == SelectSeq(array, Keep)
    IN  IF limit # Undefined /\ limit.v < Len(kept) THEN SubSeq(kept, 1, limit.v)
        ELSE kept

ParseTradesUnsorted(trades, market, since, limit) ==
    IF Len(Prop(trades, "trades").v) = 0 THEN << >>
    ELSE LET result == [ i \in 1..Len(Prop(trades, "trades").v) |->
                           ParseTrade(Prop(trades, "trades").v[i], market) ]
             symbol == IF market # Undefined THEN market.symbol ELSE Undefined
         IN  FilterBySymbolSinceLimit(result, symbol, since, limit)

\* parseTrades (trades, market, since, limit)
ParseTrades(trades, market, since, limit) ==
    IF Len(Prop(trades, "trades").v) = 0 THEN << >>
    ELSE LET result == [ i \in 1..Len(Prop(trades, "trades").v) |->
                           ParseTrade(Prop(trades, "trades").v[i], market) ]
             sorted == SortBy(result, "timestamp")
             symbol == IF market # Undefined THEN market.symbol ELSE Undefined
         IN  FilterBySymbolSinceLimit(sorted, symbol, since, limit)

\* How many times parseTrades calls parseTrade: once per entry of the map,
\* and not at all on the early return.
ParseTradeCalls(trades) ==
    IF Len(Prop(trades, "trades").v) = 0 THEN 0 ELSE Len(Prop(trades, "trades").v)

(***************************************************************************)
(* describe ().exceptions and handleErrors                                 *)
(***************************************************************************)
exceptions ==
    Obj([ c \in { "100", "101", "102", "110", "111", "120", "121",
                  "130", "140", "150", "160", "429" } |->
          CASE c \in { "100", "101", "102" } -> "ArgumentsRequired"
            [] c \in { "110", "111" } -> "InvalidNonce"
            [] c \in { "120", "121", "130", "140", "150", "160" } -> "BadRequest"
            [] c = "429" -> "DDoSProtection" ])

\* The codes the comment above handleErrors documents.
DocumentedCodes ==
    { "100", "101", "102", "110", "111", "120", "121", "130", "131", "140",
      "150", "160", "429" }

Return == [t |-> "return"]
Returns(value) == [t |-> "return", v |-> value]
Throw(class, message) == [t |-> "throw", class |-> class, message |-> message]

\* throw new exceptions[error] (message): an own entry is an error class; the
\* inherited `constructor` is Object, so the thrown value is the wrapper
\* object Object (message) makes; any other inherited member is no
\* constructor and `new` throws a TypeError.
ThrowNew(table, error, message) ==
    LET k == ToKey(error) IN
    IF k \in DOMAIN table.v THEN Throw(table.v[k], message)
    ELSE IF k \in Constructible THEN Throw("Object", message)
    ELSE Throw("TypeError", Str(k))

\* handleErrors (httpCode, reason, url, method, headers, body, response): the
\* value is what the call does, return or throw.
HandleErrors(body, response) ==
    IF body.t # "string" THEN Return
    ELSE IF Len(body.v) < 2 THEN Return
    ELSE IF SubSeq(body.v, 1, 1) = "{" \/ SubSeq(body.v, 1, 1) = "["
    THEN LET error == SafeString(response, "errorCode") IN
         IF HasProperty(error, exceptions)
         THEN ThrowNew(exceptions, error, Prop(response, "reason"))
         ELSE LET status == SafeString(response, "status") IN
              IF status = Str("error")
              THEN Throw("ExchangeError", Prop(response, "reason"))
              ELSE Return
    ELSE Return

(***************************************************************************)
(* parseOrderStatus                                                        *)
(***************************************************************************)
statuses ==
    Obj([ s \in { "open", "filled", "canceled", "expired" } |->
          CASE s = "open" -> Str("open")
            [] s = "filled" -> Str("closed")
            [] s = "canceled" -> Str("canceled")
            [] s = "expired" -> Str("canceled") ])

ParseOrderStatus(status) ==
    IF HasProperty(status, statuses) THEN Prop(statuses, ToKey(status)) ELSE status

(***************************************************************************)
(* fetchMarkets                                                            *)
(***************************************************************************)
\* One pass of the loop of fetchMarkets throws a TypeError when the title
\* is no string or has no "/" (quote is undefined, quote.toLowerCase ()), or
\* when minAmount is no string (minAmount.split).
MarketThrows(market) ==
    \/ Prop(market, "title").t # "string"
    \/ Len(Split(Prop(market, "title").v, "/")) < 2
    \/ Prop(market, "minAmount").t # "string"

\* let precision = { 'amount': market['priceDecimals'], 'price': market['amountDecimals'] }
PrecisionOf(market) ==
    [ amount |-> Prop(market, "priceDecimals"),
      price |-> Prop(market, "amountDecimals") ]

ActiveAlways(market) == TRUE

\* let active = (market['trading'] === 'Enabled')
ActiveOf(market) == Prop(market, "trading") = Str("Enabled")

\* The entry fetchMarkets pushes for one pair record.
MarketOf(market) ==
    LET symbol == Prop(market, "title").v
        pair == Split(symbol, "/")
        base == pair[1]
        quote == pair[2]
        baseId == ToLowerCase(base)
        quoteId == ToLowerCase(quote)
        symbolId == baseId \o "_" \o quoteId
        id == baseId \o quoteId
        precision == PrecisionOf(market)
        parts == Split(Prop(market, "minAmount").v, " ")
        cost == parts[1]
        active == ActiveOf(market)
    IN  [ id |-> Str(id),
          symbol |-> Str(symbol),
          base |-> Str(base),
          quote |-> Str(quote),
          baseId |-> Str(baseId),
          quoteId |-> Str(quoteId),
          symbolId |-> Str(symbolId),
          info |-> market,
          active |-> active,
          precision |-> precision,
          limits |->
            [ amount |-> [min |-> PowTenMinus(precision.amount), max |-> Undefined],
              price |-> [min |-> PowTenMinus(precision.price), max |-> Undefined],
              cost |-> [min |-> ParseFloat(Str(cost)), max |-> Undefined] ] ]

FetchMarketsKeepingFirst(response) ==
    IF \E i \in 1..Len(response) : MarketThrows(response[i])
    THEN Throw("TypeError", Undefined)
    ELSE Returns([ i \in 1..(IF Len(response) > 1 THEN 1 ELSE Len(response)) |->
                     MarketOf(response[i]) ])

\* fetchMarkets, after the response of public/trading-pairs/get/all/ has
\* arrived: response is the sequence of its values in the order of
\* Object.keys.  The result is a new array on every call.
FetchMarkets(response) ==
    IF \E i \in 1..Len(response) : MarketThrows(response[i])
    THEN Throw("TypeError", Undefined)
    ELSE Returns([ i \in 1..Len(response) |-> MarketOf(response[i]) ])

(***************************************************************************)
(* parseOrder                                                              *)
(***************************************************************************)
\* x as the operand of * : a number, or the number a string writes.
ToNumber(x) ==
    IF x.t = "number" THEN x
    ELSE IF x.t = "string" /\ Len(x.v) > 0 /\ DigitPrefix(x.v) = Len(x.v)
    THEN Num(DigitsToNat(x.v))
    ELSE IF x = Str("") THEN Num(0)
    ELSE NaN

\* markets_by_id: the catalog indexed by the exchange's pair id.
MarketsById(catalog) ==
    [ id \in { catalog[i].id.v : i \in DOMAIN catalog } |->
        catalog[CHOOSE i \in DOMAIN catalog : catalog[i].id.v = id] ]

\* this.markets_by_id[order.currencyPair]
MarketById(markets_by_id, id) ==
    IF JsString(id) \in DOMAIN markets_by_id THEN markets_by_id[JsString(id)]
    ELSE Undefined

OrderFilledReversed(amount, remaining) == FSub(remaining, amount)

\* filled = amount - remaining
OrderFilled(amount, remaining) == FSub(amount, remaining)

\* cost = price * filled
OrderCost(price, filled) == FMul(price, filled)

\* parseOrder (order): what the call does, return the order or throw (the
\* rejection of the promise the async function returns).
ParseOrder(order, markets_by_id) ==
    LET market == MarketById(markets_by_id, Prop(order, "currencyPair"))
        status == ParseOrderStatus(SafeString(order, "orderStatus"))
        id == SafeString(order, "id")
        side == SafeString(order, "type")
        timestamp == Str(JsString(FMul(ToNumber(Prop(order, "created")), Num(1000))))
        amount == SafeFloat(order, "amount", Undefined)
        price == SafeFloat(order, "price", Undefined)
        remaining == SafeFloat(order, "remainingAmount", Undefined)
        filled == OrderFilled(amount, remaining)
        cost == OrderCost(price, filled)
        symbol == IF market # Undefined THEN market.symbol ELSE Undefined
        feeCurrency == IF market # Undefined THEN market.quote ELSE Undefined
        fee == [cost |-> Undefined, currency |-> feeCurrency]
    IN  IF Prop(order, "trades").t # "array" THEN Throw("TypeError", Undefined)
        ELSE Returns(
          [ id |-> id,
            datetime |-> Iso8601(timestamp),
            timestamp |-> timestamp,
            lastTradeTimestamp |-> Undefined,
            status |-> status,
            symbol |-> symbol,
            type |-> Str("limit"),
            side |-> side,
            price |-> price,
            cost |-> cost,
            amount |-> amount,
            filled |-> filled,
            remaining |-> remaining,
            trades |-> [ i \in 1..Len(Prop(order, "trades").v) |->
                           ParseTrade(Prop(order, "trades").v[i], market) ],
            fee |-> fee,
            info |-> order ])

(***************************************************************************)
(* sign and nonce                                                          *)
(***************************************************************************)
\* describe ().requiredCredentials
requiredCredentials == { "apiKey", "secret" }

\* checkRequiredCredentials () passes: every required credential is set
\* (it throws an AuthenticationError otherwise).
CheckRequiredCredentials(creds) ==
    \A k \in requiredCredentials : creds[k] # Undefined

\* nonce (): this.milliseconds (), the clock.
Nonce(now) == Num(now)

\* hmac (auth, secret), encoded and in upper case: kept as what it signs.
Signature(auth, secret) == [t |-> "HMAC", auth |-> auth, secret |-> secret]

\* The url of a request: urls.api + implodeParams (path, params), kept as
\* its parts.
Url(path, params) == [api |-> "https://api.tokens.net/", path |-> path, params |-> params]

SignPrivateNonceFirst(path, method, params, creds, now) ==
    IF ~CheckRequiredCredentials(creds)
    THEN [ outcome |-> Throw("AuthenticationError", Undefined),
           taken |-> << Nonce(now).v >> ]
    ELSE LET nonce == JsString(Nonce(now))
             auth == nonce \o creds.apiKey.v
         IN  [ outcome |-> Returns(
                 [ url |-> Url(path, params), method |-> method, api |-> "private",
                   body |-> params,
                   headers |-> [ key |-> creds.apiKey,
                                 signature |-> Signature(auth, creds.secret.v),
                                 nonce |-> nonce ] ]),
               taken |-> << Nonce(now).v >> ]

\* The private branch of sign: outcome is the request it returns or the
\* error it throws, taken the nonces it has drawn from nonce ().
SignPrivate(path, method, params, creds, now) ==
    IF ~CheckRequiredCredentials(creds)
    THEN [ outcome |-> Throw("AuthenticationError", Undefined), taken |-> << >> ]
    ELSE LET nonce == JsString(Nonce(now))
             auth == nonce \o creds.apiKey.v
         IN  [ outcome |-> Returns(
                 [ url |-> Url(path, params), method |-> method, api |-> "private",
                   body |-> params,
                   headers |-> [ key |-> creds.apiKey,
                                 signature |-> Signature(auth, creds.secret.v),
                                 nonce |-> nonce ] ]),
               taken |-> << Nonce(now).v >> ]

\* sign (path, api, method, params)
Sign(path, api, method, params, creds, now) ==
    IF api = "public"
    THEN [ outcome |-> Returns(
             [ url |-> Url(path, params), method |-> method, api |-> "public",
               body |-> Undefined, headers |-> Undefined ]),
           taken |-> << >> ]
    ELSE SignPrivate(path, method, params, creds, now)

(***************************************************************************)
(* The catalog a connector holds: markets, and what setMarkets derives.    *)
(***************************************************************************)
\* this.market (symbol): the market of the symbol, undefined when the
\* catalog has none (market () then throws).  The catalog is undefined, or
\* the array fetchMarkets returned.
MarketOfSymbol(catalog, symbol) ==
    IF catalog.t = "array" /\ \E i \in DOMAIN catalog.v : catalog.v[i].symbol = symbol
    THEN catalog.v[CHOOSE i \in DOMAIN catalog.v : catalog.v[i].symbol = symbol]
    ELSE Undefined

\* s without the entries that occur earlier in it.
RECURSIVE Distinct(_)
Distinct(seq) ==
    IF Len(seq) = 0 THEN << >>
    ELSE LET front == Distinct(SubSeq(seq, 1, Len(seq) - 1))
             last == seq[Len(seq)]
         IN  IF \E i \in DOMAIN front : front[i] = last THEN front
             ELSE Append(front, last)

RECURSIVE BaseAndQuote(_)
BaseAndQuote(catalog) ==
    IF Len(catalog) = 0 THEN << >>
    ELSE BaseAndQuote(SubSeq(catalog, 1, Len(catalog) - 1))
           \o << catalog[Len(catalog)].base.v, catalog[Len(catalog)].quote.v >>

\* Object.keys (this.currencies): the codes of the currencies the catalog
\* knows, the base and quote of its markets.
CurrencyKeys(catalog) == Distinct(BaseAndQuote(catalog))

(***************************************************************************)
(* What each operation asks of the exchange, and makes of the answer       *)
(***************************************************************************)
LoadingOperationsWithoutTicker ==
    { "fetchOrderBook", "fetchTrades", "fetchBalance", "createOrder", "fetchOrder" }

\* The operations that begin with `await this.loadMarkets ()`.
LoadingOperations ==
    { "fetchOrderBook", "fetchTicker", "fetchTrades", "fetchBalance",
      "createOrder", "fetchOrder" }

\* The operations that resolve a symbol with market () or marketId ().
SymbolOperations == { "fetchOrderBook", "fetchTicker", "fetchTrades", "createOrder" }

\* amountToPrecision / priceToPrecision: the number written with the digits
\* of the market, kept as the number and the digits.
ToPrecision(x, digits) == [t |-> "precise", v |-> x, digits |-> digits]

\* The request of an operation other than fetchBalance: api, method, path
\* and params.  market is the market of the call's symbol.
RequestOf(call, market) ==
    CASE call.op = "fetchOrderBook" ->
           [ api |-> "public", method |-> "GET", path |-> "public/order-book/{pair}/",
             params |-> [pair |-> market.id] ]
      [] call.op = "fetchTicker" ->
           [ api |-> "public", method |-> "GET", path |-> "public/ticker/{pair}/",
             params |-> [pair |-> market.id, time |-> Str("hour")] ]
      [] call.op = "fetchTrades" ->
           [ api |-> "public", method |-> "GET", path |-> "public/trades/{time}/{pair}/",
             params |-> [pair |-> market.id, time |-> Str("hour")] ]
      [] call.op = "createOrder" ->
           [ api |-> "private", method |-> "POST", path |-> "private/orders/add/limit/",
             params |-> [ tradingPair |-> market.id,
                          amount |-> ToPrecision(Num(3), market.precision.amount),
                          side |-> Str("buy"),
                          price |-> ToPrecision(Num(2), market.precision.price) ] ]
      [] call.op = "cancelOrder" ->
           [ api |-> "private", method |-> "POST", path |-> "private/orders/cancel/{id}/",
             params |-> [id |-> call.arg] ]
      [] call.op \in { "fetchOrderStatus", "fetchOrder" } ->
           [ api |-> "private", method |-> "GET", path |-> "private/orders/get/{id}/",
             params |-> [id |-> call.arg] ]

\* The request of fetchBalance for one currency code.
BalanceRequest(code) ==
    [ api |-> "private", method |-> "GET", path |-> "private/balance/{currency}/",
      params |-> [currency |-> code] ]

\* The request of fetchMarkets.
MarketsRequest ==
    [ api |-> "public", method |-> "GET", path |-> "public/trading-pairs/get/all/",
      params |-> << >> ]

\* parseOrderBook (orderbook, timestamp): bids and asks as the exchange
\* ordered them.
ParseOrderBook(orderbook, timestamp) ==
    [ bids |-> Prop(orderbook, "bids"), asks |-> Prop(orderbook, "asks"),
      timestamp |-> timestamp, datetime |-> Iso8601(timestamp), nonce |-> Undefined ]

\* The ticker fetchTicker returns.
TickerOf(symbol, ticker) ==
    LET timestamp == FMul(ParseInt(Prop(ticker, "timestamp")), Num(1000))
        vwap == SafeFloat(ticker, "vwap", Undefined)
        baseVolume == SafeFloat(ticker, "volume", Undefined)
        quoteVolume == IF baseVolume # Undefined /\ vwap # Undefined
                       THEN FMul(baseVolume, vwap) ELSE Undefined
        last == SafeFloat(ticker, "last", Undefined)
    IN  [ symbol |-> symbol, timestamp |-> timestamp, datetime |-> Iso8601(timestamp),
          high |-> SafeFloat(ticker, "high", Undefined),
          low |-> SafeFloat(ticker, "low", Undefined),
          bid |-> SafeFloat(ticker, "bid", Undefined), bidVolume |-> Undefined,
          ask |-> SafeFloat(ticker, "ask", Undefined), askVolume |-> Undefined,
          vwap |-> vwap, open |-> SafeFloat(ticker, "open", Undefined),
          close |-> last, last |-> last, previousClose |-> Undefined,
          change |-> Undefined, percentage |-> Undefined, average |-> Undefined,
          baseVolume |-> baseVolume, quoteVolume |-> quoteVolume, info |-> ticker ]

\* What an operation other than fetchBalance does with the response of its
\* request: return a value or throw.
Finish(call, response, catalog, now) ==
    LET market == MarketOfSymbol(catalog, call.arg) IN
    CASE call.op = "fetchOrderBook" ->
           LET timestamp == FMul(ParseInt(Prop(response, "timestamp")), Num(1000)) IN
           Returns([ ParseOrderBook(response, timestamp) EXCEPT !.nonce = Nonce(now) ])
      [] call.op = "fetchTicker" -> Returns(TickerOf(call.arg, response))
      [] call.op = "fetchTrades" ->
           Returns(ParseTrades(response, market, Undefined, Undefined))
      [] call.op = "createOrder" ->
           LET timestamp ==
                 Str(JsString(FMul(ToNumber(Prop(response, "timestamp")), Num(1000))))
           IN  Returns([ info |-> response, datetime |-> Iso8601(timestamp),
                         timestamp |-> timestamp, id |-> SafeString(response, "orderId") ])
      [] call.op = "cancelOrder" -> Returns(response)
      [] call.op = "fetchOrderStatus" ->
           Returns(ParseOrderStatus(SafeString(response, "orderStatus")))
      [] call.op = "fetchOrder" -> ParseOrder(response, MarketsById(catalog.v))

\* account (), filled in from one balance response.
AccountOfTotal(res) ==
    [ free |-> ParseFloat(Prop(res, "total")),
      used |-> Num(0),
      total |-> ParseFloat(Prop(res, "total")) ]

AccountOf(res) ==
    [ free |-> ParseFloat(Prop(res, "available")),
      used |-> Num(0),
      total |-> ParseFloat(Prop(res, "total")) ]

\* parseBalance (result): the per-currency accounts and info, as collected.
ParseBalance(result) == result

(***************************************************************************)
(* The catalog builder on its own: the exchange lists and delists pairs,   *)
(* and fetchMarkets is called again and again.                             *)
(***************************************************************************)
MaxPairs == 2

\* The pair records tried.  Each comes with what it was written from: the
\* base and quote of its title, their lowercase forms, the number its
\* minAmount starts with, and whether trading is on.
PairFacts ==
    { [ base |-> "DPP", quote |-> "ETH", lowBase |-> "dpp", lowQuote |-> "eth",
        minText |-> "0.001", minValue |-> Decimal(1, 3), trading |-> "Enabled",
        priceDecimals |-> 4, amountDecimals |-> 8 ],
      [ base |-> "BTC", quote |-> "USDT", lowBase |-> "btc", lowQuote |-> "usdt",
        minText |-> "10", minValue |-> Num(10), trading |-> "Disabled",
        priceDecimals |-> 2, amountDecimals |-> 6 ],
      [ base |-> "Eth", quote |-> "bTC", lowBase |-> "eth", lowQuote |-> "btc",
        minText |-> "0.5", minValue |-> Decimal(5, 1), trading |-> "enabled",
        priceDecimals |-> 8, amountDecimals |-> 0 ],
      [ base |-> "LTC", quote |-> "EURS", lowBase |-> "ltc", lowQuote |-> "eurs",
        minText |-> "2.50", minValue |-> Decimal(25, 1), trading |-> "Enabled",
        priceDecimals |-> 3, amountDecimals |-> 3 ] }

\* The pair record of the exchange written from f.
RawPair(f) ==
    Obj([ title |-> Str(f.base \o "/" \o f.quote),
          priceDecimals |-> Num(f.priceDecimals),
          amountDecimals |-> Num(f.amountDecimals),
          minAmount |-> Str(f.minText \o " " \o f.quote),
          trading |-> Str(f.trading) ])

\* A record without a "/" in its title, which fetchMarkets cannot split.
MalformedPair ==
    Obj([ title |-> Str("DPPETH"), priceDecimals |-> Num(4),
          amountDecimals |-> Num(8), minAmount |-> Str("0.001 ETH"),
          trading |-> Str("Enabled") ])

PairRecords == { RawPair(f) : f \in PairFacts } \cup { MalformedPair }

FactsOf(raw) == CHOOSE f \in PairFacts : RawPair(f) = raw

Remove(seq, i) == SubSeq(seq, 1, i - 1) \o SubSeq(seq, i + 1, Len(seq))

\* The symbols of a returned catalog.
SymbolsOf(outcome) ==
    IF outcome.t = "return" THEN { outcome.v[i].symbol : i \in DOMAIN outcome.v }
    ELSE {}

ErrorsIdle == handleErrorsCall = NoCall
StatusIdle == parseOrderStatusCall = NoCall
MarketsIdle == exchangePairs = <<>> /\ fetchMarketsCall = NoCall
TradesIdle == parseTradesCall = NoCall
OrderIdle == parseOrderCall = NoCall

\* The calls of an execution, numbered in the order they are made; they run
\* one after the other or interleaved.
Callers == { 1, 2 }

\* A caller with no call in progress.
IdleCall == [pc |-> "idle"]

ConnectorIdle ==
    /\ credentials = [apiKey |-> Undefined, secret |-> Undefined]
    /\ clock = 0
    /\ markets = Undefined
    /\ calls = [p \in Callers |-> IdleCall]
    /\ nonces = << >>

MarketsInit ==
    /\ exchangePairs = <<>>
    /\ fetchMarketsCall = NoCall
    /\ ErrorsIdle
    /\ StatusIdle
    /\ TradesIdle
    /\ OrderIdle
    /\ ConnectorIdle

ExchangeListsPair ==
    /\ Len(exchangePairs) < MaxPairs
    /\ \E r \in PairRecords : exchangePairs' = Append(exchangePairs, r)
    /\ UNCHANGED <<fetchMarketsCall, errorsVars, statusVars, tradesVars, orderVars, connectorVars>>

ExchangeDelistsPair ==
    /\ \E i \in 1..Len(exchangePairs) : exchangePairs' = Remove(exchangePairs, i)
    /\ UNCHANGED <<fetchMarketsCall, errorsVars, statusVars, tradesVars, orderVars, connectorVars>>

\* One call of fetchMarkets.  stale records whether the previous call had
\* returned a symbol that the response of this call no longer lists.
FetchMarketsStep ==
    /\ fetchMarketsCall' =
         [ state |-> "finished",
           response |-> exchangePairs,
           outcome |-> FetchMarkets(exchangePairs),
           stale |-> /\ fetchMarketsCall.state = "finished"
                     /\ \E sym \in SymbolsOf(fetchMarketsCall.outcome) :
                          \A i \in 1..Len(exchangePairs) :
                             Prop(exchangePairs[i], "title") # sym ]
    /\ UNCHANGED <<exchangePairs, errorsVars, statusVars, tradesVars, orderVars, connectorVars>>

MarketsNext == ExchangeListsPair \/ ExchangeDelistsPair \/ FetchMarketsStep

SpecMarkets == MarketsInit /\ [][MarketsNext]_vars

(***************************************************************************)
(* The catalog the normalizers below work with: fetchMarkets of two pairs. *)
(***************************************************************************)
CatalogFacts ==
    { f \in PairFacts : f.base \in { "DPP", "BTC" } }

CatalogResponse ==
    << RawPair(CHOOSE f \in CatalogFacts : f.base = "DPP"),
       RawPair(CHOOSE f \in CatalogFacts : f.base = "BTC") >>

Catalog == FetchMarkets(CatalogResponse).v

(***************************************************************************)
(* The trade normalizer on its own.                                        *)
(***************************************************************************)
MaxTrades == 3
MaxTime == 3

\* The raw trades tried: of every second 1..MaxTime, with the generic price
\* and amount fields or with the fields named after the pair.
RawTrades ==
    { Obj([ tid |-> Num(d), type |-> Str("buy"), datetime |-> Num(d),
            price |-> Num(2), amount |-> Num(3) ]) : d \in 1..MaxTime }
    \cup
    { Obj([ id |-> Str("t"), type |-> Str("sell"), datetime |-> Str(NatToString(d)),
            dpp_eth |-> Str("5"), dpp |-> Num(0 - 2) ]) : d \in 1..MaxTime }

RECURSIVE SeqsUpTo(_, _)
SeqsUpTo(S, n) ==
    IF n = 0 THEN { << >> }
    ELSE LET shorter == SeqsUpTo(S, n - 1) IN
         shorter \cup { Append(q, x) : q \in shorter, x \in S }

TradesInit ==
    /\ parseTradesCall \in
         { [ state |-> "called", trades |-> Obj([trades |-> Arr(list)]), market |-> m,
             since |-> since, limit |-> limit ] :
             list \in SeqsUpTo(RawTrades, MaxTrades),
             m \in { Undefined, Catalog[1] },
             since \in { Undefined, Num(2000), Num(2500) },
             limit \in { Undefined } \cup { Num(n) : n \in 0..2 } }
    /\ ErrorsIdle
    /\ StatusIdle
    /\ MarketsIdle
    /\ OrderIdle
    /\ ConnectorIdle

ParseTradesStep ==
    /\ parseTradesCall.state = "called"
    /\ parseTradesCall' =
         [ parseTradesCall EXCEPT !.state = "finished" ] @@
         [ result |-> ParseTrades(parseTradesCall.trades, parseTradesCall.market,
                                  parseTradesCall.since, parseTradesCall.limit),
           parseTradeCalls |-> ParseTradeCalls(parseTradesCall.trades) ]
    /\ UNCHANGED <<errorsVars, statusVars, marketsVars, orderVars, connectorVars>>

TradesNext == ParseTradesStep

SpecTrades == TradesInit /\ [][TradesNext]_vars

(***************************************************************************)
(* The order normalizer on its own.                                        *)
(***************************************************************************)
\* The first integer past the significand: Big + 1 is not representable.
Big == Pow(2, MantissaBits)

OrderAmounts == { Undefined, Num(0), Num(1), Num(3), Str("3"), Num(Big), Num(Big + 2) }
OrderRemainings == { Undefined, Num(0), Num(1), Num(3), Num(Big) }
OrderPrices == { Undefined, Num(1), Num(3), Num(Big - 1) }

RawOrders ==
    { ObjOf([ id |-> Num(7), type |-> Str("buy"), created |-> Num(1),
              orderStatus |-> st, currencyPair |-> pair,
              amount |-> a, remainingAmount |-> r, price |-> p,
              trades |-> tr ]) :
        st \in { Undefined, Str("filled") },
        pair \in { Str("dppeth"), Str("xyz") },
        a \in OrderAmounts, r \in OrderRemainings, p \in OrderPrices,
        tr \in { Undefined, Arr(<< >>),
                 Arr(<< Obj([tid |-> Num(1), type |-> Str("buy"), datetime |-> Num(1),
                             price |-> Num(2), amount |-> Num(3)]) >>) } }

OrderInit ==
    /\ parseOrderCall \in { [state |-> "called", order |-> o] : o \in RawOrders }
    /\ ErrorsIdle
    /\ StatusIdle
    /\ MarketsIdle
    /\ TradesIdle
    /\ ConnectorIdle

ParseOrderStep ==
    /\ parseOrderCall.state = "called"
    /\ parseOrderCall' =
         [ state |-> "finished",
           order |-> parseOrderCall.order,
           outcome |-> ParseOrder(parseOrderCall.order, MarketsById(Catalog)) ]
    /\ UNCHANGED <<errorsVars, statusVars, marketsVars, tradesVars, connectorVars>>

OrderNext == ParseOrderStep

SpecOrder == OrderInit /\ [][OrderNext]_vars

(***************************************************************************)
(* The connector: callers make calls that interleave at every await, the   *)
(* clock ticks, and the exchange answers each request with a response or   *)
(* an error.                                                               *)
(***************************************************************************)
MaxClock == 2

\* The calls made: every operation of the claims, with a symbol the catalog
\* has and one it has not, and fetchBalance with and without a currency.
Invocations ==
    { [op |-> o, arg |-> Str(sym)] :
        o \in SymbolOperations, sym \in { "DPP/ETH", "XRP/BTC" } }
    \cup { [op |-> "fetchBalance", arg |-> c] : c \in { Undefined, Str("ETH") } }
    \cup { [op |-> o, arg |-> Str("7")] :
             o \in { "cancelOrder", "fetchOrderStatus", "fetchOrder" } }

\* The pairs the exchange lists while the connector runs.
ListedPairs == << RawPair(CHOOSE f \in PairFacts : f.base = "DPP") >>

\* The object whose values, in the order of Object.keys, are seq.
ObjectOf(seq) == Obj([ k \in { NatToString(i - 1) : i \in 1..Len(seq) } |->
                         seq[CHOOSE i \in 1..Len(seq) : NatToString(i - 1) = k] ])

\* Object.keys (o) mapped to the values, for an object made by ObjectOf.
ValuesOf(o) == [ i \in 1..Cardinality(DOMAIN o.v) |-> o.v[NatToString(i - 1)] ]

\* The balances the exchange may report, each with the numbers its texts
\* write.
BalanceFacts ==
    { [ availableText |-> "1.5", available |-> Decimal(15, 1),
        totalText |-> "2", total |-> Num(2) ],
      [ availableText |-> "0", available |-> Num(0),
        totalText |-> "0.25", total |-> Decimal(25, 2) ] }

BalanceResponse(code, f) ==
    Obj([ currency |-> Str(code), available |-> Str(f.availableText),
          total |-> Str(f.totalText) ])

Reply(response) == [body |-> Str("{\"...\":\"...\"}"), response |-> response]

\* The answer of the exchange that reports error 111.
ErrorReply ==
    [ body |-> Str("{\"errorCode\":111}"),
      response |-> Obj([ errorCode |-> Num(111),
                         reason |-> Str("Provided nonce is less or equal to the last nonce") ]) ]

\* The answers the exchange may give to a request.
RepliesTo(request) ==
    { ErrorReply } \cup
    CASE request.path = "public/trading-pairs/get/all/" ->
           { Reply(ObjectOf(ListedPairs)) }
      [] request.path = "public/order-book/{pair}/" ->
           { Reply(Obj([timestamp |-> Str("1"), bids |-> Arr(<< >>), asks |-> Arr(<< >>)])) }
      [] request.path = "public/ticker/{pair}/" ->
           { Reply(Obj([ timestamp |-> Num(1), vwap |-> Num(2), volume |-> Num(10),
                         last |-> Str("3") ])) }
      [] request.path = "public/trades/{time}/{pair}/" ->
           { Reply(Obj([ trades |-> Arr(<<
               Obj([tid |-> Num(2), type |-> Str("buy"), datetime |-> Num(2),
                    price |-> Num(2), amount |-> Num(3)]),
               Obj([tid |-> Num(1), type |-> Str("sell"), datetime |-> Num(1),
                    price |-> Num(2), amount |-> Num(1)]) >>) ])) }
      [] request.path = "private/orders/add/limit/" ->
           { Reply(Obj([timestamp |-> Num(1), orderId |-> Num(7)])) }
      [] request.path = "private/orders/cancel/{id}/" ->
           { Reply(Obj([status |-> Str("ok")])) }
      [] request.path = "private/orders/get/{id}/" ->
           { Reply(Obj([ id |-> Num(7), type |-> Str("buy"), created |-> Num(1),
                         orderStatus |-> Str("filled"), currencyPair |-> Str("dppeth"),
                         amount |-> Num(3), remainingAmount |-> Num(1),
                         price |-> Num(2), trades |-> Arr(<< >>) ])) }
      [] request.path = "private/balance/{currency}/" ->
           { Reply(BalanceResponse(request.params.currency, f)) : f \in BalanceFacts }

\* A call from its first step on.  sent: the requests it has handed to the
\* transport; keys, i and result: the locals of fetchBalance;
\* catalogAtResolve: whether the catalog was loaded when the call went on
\* from loadMarkets to resolve its symbol and build its request.
NewCall(inv) ==
    [ pc |-> "start", op |-> inv.op, arg |-> inv.arg, sent |-> << >>,
      keys |-> << >>, i |-> 0,
      result |-> [accounts |-> << >>, info |-> Undefined],
      catalogAtResolve |-> "unresolved", outcome |-> Undefined ]

ConnectorInit ==
    /\ credentials \in
         { [apiKey |-> Str("KEY"), secret |-> Str("SECRET")],
           [apiKey |-> Undefined, secret |-> Str("SECRET")],
           [apiKey |-> Str("KEY"), secret |-> Undefined] }
    /\ clock = 0
    /\ markets = Undefined
    /\ calls = [p \in Callers |-> IdleCall]
    /\ nonces = << >>
    /\ ErrorsIdle
    /\ StatusIdle
    /\ MarketsIdle
    /\ TradesIdle
    /\ OrderIdle

Tick ==
    /\ clock < MaxClock
    /\ clock' = clock + 1
    /\ UNCHANGED <<credentials, markets, calls, nonces, pureVars>>

\* The next call is made.
Call(p) ==
    /\ calls[p].pc = "idle"
    /\ \A q \in Callers : q < p => calls[q].pc # "idle"
    /\ \E inv \in Invocations : calls' = [calls EXCEPT ![p] = NewCall(inv)]
    /\ UNCHANGED <<credentials, clock, markets, nonces, pureVars>>

\* await this.loadMarkets (): nothing to do when the catalog is loaded, else
\* fetchMarkets sends its request.
LoadMarkets(p) ==
    /\ calls[p].pc = "start"
    /\ calls[p].op \in LoadingOperations
    /\ calls' = [calls EXCEPT ![p] =
         IF markets # Undefined THEN [@ EXCEPT !.pc = "loaded"]
         ELSE [@ EXCEPT !.pc = "awaitMarkets",
                        !.sent = Append(@, Sign(MarketsRequest.path, "public", "GET",
                                                MarketsRequest.params, credentials,
                                                clock).outcome.v)]]
    /\ UNCHANGED <<credentials, clock, markets, nonces, pureVars>>

\* this.markets after a call of loadMarkets has its outcome: what
\* fetchMarkets returned, or as before when an error was thrown.
SetMarkets(catalog, outcome) ==
    IF outcome.t = "throw" THEN catalog ELSE Arr(outcome.v)

\* What fetchMarkets makes of a reply, raised being what handleErrors made
\* of it.
FetchMarketsOutcome(reply, raised) ==
    IF raised.t = "throw" THEN raised ELSE FetchMarkets(ValuesOf(reply.response))

\* A call whose loadMarkets has its outcome: the error is thrown to the
\* caller, or the call goes on.
Loaded(call, outcome) ==
    IF outcome.t = "throw" THEN [call EXCEPT !.pc = "failed", !.outcome = outcome]
    ELSE [call EXCEPT !.pc = "loaded"]

\* The outcome of a call's fetchMarkets is in.
MarketsSet(p, outcome) ==
    /\ calls' = [calls EXCEPT ![p] = Loaded(@, outcome)]
    /\ markets' = SetMarkets(markets, outcome)

\* The response of fetchMarkets arrives: the catalog is replaced by what
\* fetchMarkets returns, or the error is thrown to the caller.
MarketsLoaded(p) ==
    /\ calls[p].pc = "awaitMarkets"
    /\ \E reply \in RepliesTo(MarketsRequest) :
         MarketsSet(p, FetchMarketsOutcome(reply,
                          HandleErrors(reply.body, reply.response)))
    /\ UNCHANGED <<credentials, clock, nonces, pureVars>>

\* sign, given a request as RequestOf and BalanceRequest build it.
SignRequest(request, creds, now) ==
    Sign(request.path, request.api, request.method, request.params, creds, now)

\* A call after sign has been asked for its request: the request is handed
\* to the transport, or the error of sign is thrown to the caller.  taken:
\* the nonces sign has drawn.
Signed(call, signed) ==
    [ call |-> IF signed.outcome.t = "throw"
               THEN [call EXCEPT !.pc = "failed", !.outcome = signed.outcome]
               ELSE [call EXCEPT !.pc = "awaitResponse",
                                 !.sent = Append(@, signed.outcome.v)],
      taken |-> signed.taken ]

\* A call that ends with outcome: a value returned or an error thrown.
Settled(call, outcome) ==
    [ call |-> [call EXCEPT !.pc = IF outcome.t = "throw" THEN "failed" ELSE "done",
                            !.outcome = outcome],
      taken |-> << >> ]

\* The step of call p to next.call, with next.taken the nonces drawn in it.
Advance(p, next) ==
    /\ calls' = [calls EXCEPT ![p] = next.call]
    /\ nonces' = nonces \o next.taken

\* The request a call builds once loadMarkets is behind it (or at once, for
\* the operations that do not load the catalog).
FirstRequest(call, catalog) ==
    IF call.op = "fetchBalance"
    THEN BalanceRequest(IF call.arg = Undefined THEN CurrencyKeys(catalog.v)[1]
                        ELSE call.arg.v)
    ELSE RequestOf(call, MarketOfSymbol(catalog, call.arg))

\* A call from the end of its loadMarkets (for the operations that do not
\* load the catalog: from its start) up to its first await of the
\* transport: the symbol is resolved, the request built and signed.
Resolve(call, creds, catalog, now) ==
    IF call.op \in SymbolOperations /\ MarketOfSymbol(catalog, call.arg) = Undefined
    THEN Settled(call, Throw("ExchangeError", Undefined))
    ELSE IF call.op = "fetchBalance" /\ call.arg = Undefined
    THEN IF Len(CurrencyKeys(catalog.v)) = 0
         THEN Settled([call EXCEPT !.result.info = Arr(<< >>)],
                      Returns(ParseBalance([call.result EXCEPT !.info = Arr(<< >>)])))
         ELSE Signed([call EXCEPT !.keys = CurrencyKeys(catalog.v),
                                  !.result.info = Arr(<< >>)],
                     SignRequest(FirstRequest(call, catalog), creds, now))
    ELSE Signed(call, SignRequest(FirstRequest(call, catalog), creds, now))

Request(p) ==
    /\ \/ calls[p].pc = "start" /\ calls[p].op \notin LoadingOperations
       \/ calls[p].pc = "loaded"
    /\ Advance(p, Resolve([calls[p] EXCEPT !.catalogAtResolve =
                             IF markets = Undefined THEN "unloaded" ELSE "loaded"],
                          credentials, markets, clock))
    /\ UNCHANGED <<credentials, clock, markets, pureVars>>

\* result after the balance response of one more currency of the loop.
WithAccount(result, code, res) ==
    [ accounts |-> Append(result.accounts, [code |-> code, account |-> AccountOf(res)]),
      info |-> Arr(Append(result.info.v, res)) ]

\* result of fetchBalance for one currency: filed under the currency the
\* response names.
SingleAccount(res) ==
    [ accounts |-> << [code |-> Prop(res, "currency").v, account |-> AccountOf(res)] >>,
      info |-> res ]

\* A call of fetchBalance without a currency that has filed the account of
\* one more response: the next request is signed, or the balance returned.
NextBalance(filed, creds, now) ==
    IF filed.i < Len(filed.keys)
    THEN Signed(filed, SignRequest(BalanceRequest(filed.keys[filed.i + 1]), creds, now))
    ELSE Settled(filed, Returns(ParseBalance(filed.result)))

\* A call whose response res has passed handleErrors: fetchBalance without
\* a currency goes on to its next request, every other operation to its
\* return.
Proceed(call, res, creds, catalog, now) ==
    IF call.op = "fetchBalance" /\ call.arg = Undefined
    THEN NextBalance([call EXCEPT
                        !.result = WithAccount(@, call.keys[call.i + 1], res),
                        !.i = @ + 1],
                     creds, now)
    ELSE IF call.op = "fetchBalance"
    THEN Settled([call EXCEPT !.result = SingleAccount(res)],
                 Returns(ParseBalance(SingleAccount(res))))
    ELSE Settled(call, Finish(call, res, catalog, now))

\* A call after the reply to the request it awaits, raised being what
\* handleErrors made of the reply.
Received(call, reply, raised, creds, catalog, now) ==
    IF raised.t = "throw" THEN Settled(call, raised)
    ELSE Proceed(call, reply.response, creds, catalog, now)

\* The response of the awaited request arrives.
Response(p) ==
    /\ calls[p].pc = "awaitResponse"
    /\ \E reply \in RepliesTo(calls[p].sent[Len(calls[p].sent)].url) :
         Advance(p, Received(calls[p], reply, HandleErrors(reply.body, reply.response),
                             credentials, markets, clock))
    /\ UNCHANGED <<credentials, clock, markets, pureVars>>

Next ==
    \/ Tick
    \/ \E p \in Callers :
         \/ Call(p)
         \/ LoadMarkets(p)
         \/ MarketsLoaded(p)
         \/ Request(p)
         \/ Response(p)

Spec == ConnectorInit /\ [][Next]_vars

(***************************************************************************)
(* The error classifier on its own: every body and parsed response of the  *)
(* sets below is classified once.                                          *)
(***************************************************************************)
Bodies ==
    { Undefined, Str(""), Str("{"), Str("{}"), Str("[]"), Str("ok"),
      Str("<html>"), Str("{\"errorCode\":110}") }

ErrorCodes ==
    { Str(c) : c \in DocumentedCodes \cup { "999", "constructor", "toString" } }
        \cup { Num(110), Num(131), Num(500), Undefined }

StatusValues == { Undefined, Str("ok"), Str("error") }

ReasonValues == { Undefined, Str("bad nonce") }

Responses ==
    { Undefined } \cup
    { ObjOf([errorCode |-> e, status |-> s, reason |-> r]) :
        e \in ErrorCodes, s \in StatusValues, r \in ReasonValues }

ErrorsInit ==
    /\ handleErrorsCall \in
         { [state |-> "called", body |-> b, response |-> r] :
             b \in Bodies, r \in Responses }
    /\ StatusIdle
    /\ MarketsIdle
    /\ TradesIdle
    /\ OrderIdle
    /\ ConnectorIdle

HandleErrorsStep ==
    /\ handleErrorsCall.state = "called"
    /\ handleErrorsCall' =
         [ state |-> "finished",
           body |-> handleErrorsCall.body,
           response |-> handleErrorsCall.response,
           outcome |-> HandleErrors(handleErrorsCall.body, handleErrorsCall.response) ]
    /\ UNCHANGED <<statusVars, marketsVars, tradesVars, orderVars, connectorVars>>

ErrorsNext == HandleErrorsStep

SpecErrors == ErrorsInit /\ [][ErrorsNext]_vars


(***************************************************************************)
(* The status mapping on its own.                                          *)
(***************************************************************************)
StatusStems ==
    { "", "open", "filled", "canceled", "expired", "closed", "weird_unknown",
      "constructor", "toString", "valueOf", "hasOwnProperty", "__proto__" }

StatusSuffixes == { "", "_status", "ed", " ", "__" }

\* The raw statuses tried: the four keys, near misses of them, unknown
\* strings, and undefined (safeString of an order without orderStatus).
RawStatuses ==
    { Str(p \o s) : p \in StatusStems, s \in StatusSuffixes } \cup { Undefined }

StatusInit ==
    /\ parseOrderStatusCall \in
         { [state |-> "called", status |-> s] : s \in RawStatuses }
    /\ ErrorsIdle
    /\ MarketsIdle
    /\ TradesIdle
    /\ OrderIdle
    /\ ConnectorIdle

ParseOrderStatusStep ==
    /\ parseOrderStatusCall.state = "called"
    /\ parseOrderStatusCall' =
         [ state |-> "finished",
           status |-> parseOrderStatusCall.status,
           result |-> ParseOrderStatus(parseOrderStatusCall.status) ]
    /\ UNCHANGED <<errorsVars, marketsVars, tradesVars, orderVars, connectorVars>>

StatusNext == ParseOrderStatusStep

SpecStatus == StatusInit /\ [][StatusNext]_vars

(***************************************************************************)
(* Claims about the error classifier (under SpecErrors)                    *)
(***************************************************************************)
LooksLikeJson(body) ==
    /\ body.t = "string"
    /\ Len(body.v) >= 2
    /\ SubSeq(body.v, 1, 1) \in { "{", "[" }

\* The code table as the claims read it: the twelve entries of
\* describe ().exceptions, and nothing else.
CodeTableKeys ==
    { "100", "101", "102", "110", "111", "120", "121", "130", "140", "150",
      "160", "429" }

\* C3: handleErrors raises if and only if the body is a string of length >= 2
\* starting with { or [ and either the response's errorCode is a key of the
\* code table (then the typed error of that code is raised, with the reason)
\* or no code matches and status is "error" (then a generic ExchangeError
\* with the reason); a code match wins over the status fallback, and every
\* other body raises nothing.
C3_RaisesIffCodeOrStatus ==
    handleErrorsCall.state = "finished" =>
        LET body == handleErrorsCall.body
            response == handleErrorsCall.response
            code == SafeString(response, "errorCode")
            status == SafeString(response, "status")
            reason == Prop(response, "reason")
            codeMatches == code.t = "string" /\ code.v \in CodeTableKeys
        IN  handleErrorsCall.outcome =
              IF LooksLikeJson(body) /\ codeMatches
              THEN Throw(exceptions.v[code.v], reason)
              ELSE IF LooksLikeJson(body) /\ status = Str("error")
              THEN Throw("ExchangeError", reason)
              ELSE Return

\* The typed kind the documentation gives each documented code (the code's
\* class names: ArgumentsRequired is the arguments-missing kind,
\* DDoSProtection the rate-limited kind).
DocumentedKind(c) ==
    CASE c \in { "100", "101", "102" } -> "ArgumentsRequired"
      [] c \in { "110", "111" } -> "InvalidNonce"
      [] c \in { "130", "131", "150", "160" } -> "BadRequest"
      [] c = "429" -> "DDoSProtection"

ClaimedCodes == { "100", "101", "102", "110", "111", "130", "131", "150", "160", "429" }

\* C4: every documented error code is classified into its typed kind: 100,
\* 101, 102 raise ArgumentsRequired, 110, 111 raise InvalidNonce, 130, 131,
\* 150, 160 raise BadRequest and 429 raises DDoSProtection.
C4_DocumentedCodesTyped ==
    handleErrorsCall.state = "finished" =>
        LET code == SafeString(handleErrorsCall.response, "errorCode") IN
        (LooksLikeJson(handleErrorsCall.body) /\ code.t = "string"
            /\ code.v \in ClaimedCodes)
        => handleErrorsCall.outcome =
             Throw(DocumentedKind(code.v), Prop(handleErrorsCall.response, "reason"))

(***************************************************************************)
(* Claims about the status mapping (under SpecStatus)                      *)
(***************************************************************************)
\* C5: parseOrderStatus maps open, filled, canceled, expired to open, closed,
\* canceled, canceled, and returns every other raw status string unchanged.
C5_StatusMappedOrPassedThrough ==
    (parseOrderStatusCall.state = "finished" /\ parseOrderStatusCall.status.t = "string")
    => LET raw == parseOrderStatusCall.status.v IN
       parseOrderStatusCall.result =
         CASE raw = "open" -> Str("open")
           [] raw = "filled" -> Str("closed")
           [] raw = "canceled" -> Str("canceled")
           [] raw = "expired" -> Str("canceled")
           [] OTHER -> Str(raw)


(***************************************************************************)
(* Claims about the catalog builder (under SpecMarkets)                    *)
(***************************************************************************)
\* C8: for every pair record titled BASE/QUOTE, fetchMarkets yields exactly
\* one market with symbol = the title, id = lowercase (BASE) + lowercase
\* (QUOTE), symbolId the same joined by "_", active exactly when trading is
\* "Enabled", and limits.cost.min = the number minAmount starts with; the
\* catalog returned has one entry per record of the current response, in
\* its order, and no other entry.
C8_OneMarketPerPairRecord ==
    (/\ fetchMarketsCall.state = "finished"
     /\ \A i \in 1..Len(fetchMarketsCall.response) :
           fetchMarketsCall.response[i] # MalformedPair)
    => /\ fetchMarketsCall.outcome.t = "return"
       /\ Len(fetchMarketsCall.outcome.v) = Len(fetchMarketsCall.response)
       /\ \A i \in 1..Len(fetchMarketsCall.response) :
            LET f == FactsOf(fetchMarketsCall.response[i])
                m == fetchMarketsCall.outcome.v[i]
            IN  /\ m.symbol = Str(f.base \o "/" \o f.quote)
                /\ m.id = Str(f.lowBase \o f.lowQuote)
                /\ m.symbolId = Str(f.lowBase \o "_" \o f.lowQuote)
                /\ m.active = (f.trading = "Enabled")
                /\ m.limits.cost.min = f.minValue

\* A refresh that returned two markets, one of them not active, after the
\* exchange had delisted a symbol that the previous refresh had returned.
C8_Witness ==
    /\ fetchMarketsCall.state = "finished"
    /\ fetchMarketsCall.outcome.t = "return"
    /\ Len(fetchMarketsCall.outcome.v) = 2
    /\ fetchMarketsCall.stale
    /\ \E i \in 1..2 : ~fetchMarketsCall.outcome.v[i].active
    /\ \E i \in 1..2 : fetchMarketsCall.outcome.v[i].id = Str("dppeth")

\* C11: for every pair record, fetchMarkets sets precision.amount to the
\* amountDecimals the exchange reports and precision.price to its
\* priceDecimals, and limits.amount.min = 10^-precision.amount and
\* limits.price.min = 10^-precision.price.
C11_PrecisionFromOwnDecimals ==
    (/\ fetchMarketsCall.state = "finished"
     /\ fetchMarketsCall.outcome.t = "return")
    => \A i \in 1..Len(fetchMarketsCall.outcome.v) :
          LET f == FactsOf(fetchMarketsCall.response[i])
              m == fetchMarketsCall.outcome.v[i]
          IN  /\ m.precision.amount = Num(f.amountDecimals)
              /\ m.precision.price = Num(f.priceDecimals)
              /\ m.limits.amount.min = Decimal(1, m.precision.amount.v)
              /\ m.limits.price.min = Decimal(1, m.precision.price.v)


(***************************************************************************)
(* Claims about the order normalizer (under SpecOrder)                     *)
(***************************************************************************)
\* The finished call returned an order of a payload whose amount,
\* remainingAmount and price are numbers.
OrderOfNumbers ==
    /\ parseOrderCall.state = "finished"
    /\ parseOrderCall.outcome.t = "return"
    /\ IsInteger(SafeFloat(parseOrderCall.order, "amount", Undefined))
    /\ IsInteger(SafeFloat(parseOrderCall.order, "remainingAmount", Undefined))
    /\ IsInteger(SafeFloat(parseOrderCall.order, "price", Undefined))

\* C6 as claimed: for every raw order with amount A, remainingAmount R and
\* price P the returned order has filled = A - R and cost = P * filled, so
\* that filled + remaining = amount holds on every normalized order.
C6_FilledAndCostExact ==
    OrderOfNumbers =>
        LET A == SafeFloat(parseOrderCall.order, "amount", Undefined).v
            R == SafeFloat(parseOrderCall.order, "remainingAmount", Undefined).v
            P == SafeFloat(parseOrderCall.order, "price", Undefined).v
            o == parseOrderCall.outcome.v
        IN  /\ o.filled = Num(A - R)
            /\ o.cost = Num(P * (A - R))
            /\ FAdd(o.filled, o.remaining) = o.amount

\* C6 as amended: filled is A - R and cost is P * filled as floating-point
\* arithmetic computes them, each the exact result rounded to the nearest
\* representable number; filled + remaining = amount holds whenever A - R
\* is representable exactly.
C6_FilledAndCostRounded ==
    OrderOfNumbers =>
        LET A == SafeFloat(parseOrderCall.order, "amount", Undefined).v
            R == SafeFloat(parseOrderCall.order, "remainingAmount", Undefined).v
            P == SafeFloat(parseOrderCall.order, "price", Undefined).v
            o == parseOrderCall.outcome.v
        IN  /\ o.amount = Num(A) /\ o.remaining = Num(R) /\ o.price = Num(P)
            /\ o.filled = Num(RoundFloat(A - R))
            /\ o.cost = Num(RoundFloat(P * o.filled.v))
            /\ Representable(A - R) =>
                  /\ o.filled.v + o.remaining.v = o.amount.v
                  /\ FAdd(o.filled, o.remaining) = o.amount

\* An order whose A - R had to be rounded: amount 2^MantissaBits + 2 and
\* remaining 1 give the filled 2^MantissaBits.
C6_Witness ==
    /\ OrderOfNumbers
    /\ parseOrderCall.outcome.v.amount = Num(Big + 2)
    /\ parseOrderCall.outcome.v.remaining = Num(1)
    /\ parseOrderCall.outcome.v.price = Num(3)
    /\ parseOrderCall.outcome.v.filled = Num(Big)
    /\ parseOrderCall.outcome.v.cost = Num(3 * Big)

(***************************************************************************)
(* Claims about the trade normalizer (under SpecTrades)                    *)
(***************************************************************************)
\* C7: parseTrades returns a sequence ordered ascending by timestamp, of
\* normalized trades of the raw list only, all of the market's symbol (when
\* a market is given), all with timestamp >= since (when since is given),
\* at most limit of them (when limit is given); of an empty raw list it
\* returns the empty sequence without calling parseTrade.
C7_TradesSortedFilteredLimited ==
    parseTradesCall.state = "finished" =>
        LET c == parseTradesCall
            raw == Prop(c.trades, "trades").v
            out == c.result
        IN  /\ \A i \in 1..Len(out) : \A j \in (i + 1)..Len(out) :
                  out[i].timestamp.v <= out[j].timestamp.v
            /\ \A i \in 1..Len(out) :
                  \E k \in 1..Len(raw) : out[i] = ParseTrade(raw[k], c.market)
            /\ c.market # Undefined =>
                  \A i \in 1..Len(out) : out[i].symbol = c.market.symbol
            /\ c.since # Undefined =>
                  \A i \in 1..Len(out) : out[i].timestamp.v >= c.since.v
            /\ c.limit # Undefined => Len(out) <= c.limit.v
            /\ Len(raw) = 0 => (out = << >> /\ c.parseTradeCalls = 0)

\* A call on a raw list that was not in chronological order, with a market,
\* a since that dropped a trade and a limit that cut one.
C7_Witness ==
    /\ parseTradesCall.state = "finished"
    /\ Len(Prop(parseTradesCall.trades, "trades").v) = 3
    /\ Prop(Prop(parseTradesCall.trades, "trades").v[1], "datetime") = Num(3)
    /\ Prop(Prop(parseTradesCall.trades, "trades").v[2], "datetime") = Str("1")
    /\ Prop(Prop(parseTradesCall.trades, "trades").v[3], "datetime") = Num(2)
    /\ parseTradesCall.market # Undefined
    /\ parseTradesCall.since = Num(2000)
    /\ parseTradesCall.limit = Num(1)
    /\ Len(parseTradesCall.result) = 1
    /\ parseTradesCall.result[1].timestamp = Num(2000)

(***************************************************************************)
(* Claims about the connector as a whole                                   *)
(***************************************************************************)
\* The calls that have been made.
Made == { p \in Callers : calls[p].pc # "idle" }

\* The operations that send a private request.
PrivateOperations ==
    { "fetchBalance", "createOrder", "cancelOrder", "fetchOrder", "fetchOrderStatus" }

\* The requests of a call that went to the transport, other than the one of
\* its loadMarkets.
OwnRequests(call) ==
    SelectSeq(call.sent, LAMBDA r : r.url.path # MarketsRequest.path)

\* C1: across any sequence or interleaving of private requests of one
\* connector, the nonce that sign puts in the nonce header is strictly
\* increasing: every signed request carries a nonce greater than that of
\* every request signed before it, also when two are signed within the same
\* millisecond.
C1_NoncesStrictlyIncreasing ==
    \A i \in 1..Len(nonces) : \A j \in (i + 1)..Len(nonces) : nonces[i] < nonces[j]

CredentialAbsent == \E k \in requiredCredentials : credentials[k] = Undefined

\* C2: when apiKey or secret is absent, every private operation that comes
\* to sign fails there with an AuthenticationError, before a nonce is taken,
\* a signature computed or a request handed to the transport (a createOrder
\* for a symbol the catalog has not fails earlier, in market ()); requests
\* of the public api are never refused for credentials.
C2_CredentialsCheckedFirst ==
    /\ CredentialAbsent =>
         /\ nonces = << >>
         /\ \A p \in Made :
              /\ \A n \in 1..Len(calls[p].sent) :
                    /\ calls[p].sent[n].api = "public"
                    /\ calls[p].sent[n].headers = Undefined
              /\ (calls[p].op \in PrivateOperations
                    /\ calls[p].catalogAtResolve # "unresolved") =>
                   /\ calls[p].pc = "failed"
                   /\ calls[p].outcome.class \in { "AuthenticationError", "ExchangeError" }
                   /\ calls[p].outcome.class = "ExchangeError" =>
                        /\ calls[p].op = "createOrder"
                        /\ MarketOfSymbol(markets, calls[p].arg) = Undefined
    /\ \A p \in Made :
         (calls[p].op \notin PrivateOperations /\ calls[p].pc = "failed") =>
            calls[p].outcome.class # "AuthenticationError"

\* Without an apiKey, a cancelOrder has failed in sign and a fetchTicker has
\* returned its ticker.
C2_Witness ==
    /\ credentials.apiKey = Undefined
    /\ \E p \in Made :
         /\ calls[p].op = "cancelOrder"
         /\ calls[p].pc = "failed"
         /\ calls[p].outcome.class = "AuthenticationError"
    /\ \E p \in Made :
         /\ calls[p].op = "fetchTicker"
         /\ calls[p].pc = "done"

\* The currency codes of the balance requests a call has sent, in order.
RequestedCodes(call) ==
    [ n \in 1..Len(OwnRequests(call)) |-> OwnRequests(call)[n].url.params.currency ]

\* The balance the exchange reported in the response res for code.
ReportedIn(res, code) == CHOOSE f \in BalanceFacts : BalanceResponse(code, f) = res

\* C9: fetchBalance without a currency sends one private balance request
\* per known currency code, one at a time (the next only after the response
\* to the previous one), and returns one account per known currency code
\* with free the available of that code's response, total its total and
\* used 0; when a request raises, the error reaches the caller and no
\* request is sent again or further.
C9_OneBalanceRequestPerCurrency ==
    \A p \in Made :
       (calls[p].op = "fetchBalance" /\ calls[p].arg = Undefined) =>
          LET call == calls[p]
              codes == RequestedCodes(call)
              known == IF markets = Undefined THEN << >> ELSE CurrencyKeys(markets.v)
              received == IF call.result.info = Undefined THEN 0
                          ELSE Len(call.result.info.v)
          IN  /\ Len(codes) <= Len(known)
              /\ codes = SubSeq(known, 1, Len(codes))
              /\ \A n \in 1..Len(OwnRequests(call)) :
                    /\ OwnRequests(call)[n].api = "private"
                    /\ OwnRequests(call)[n].method = "GET"
                    /\ OwnRequests(call)[n].url.path = "private/balance/{currency}/"
              /\ Len(codes) <= received + 1
              /\ call.pc = "awaitResponse" => Len(codes) = received + 1
              /\ call.pc = "failed" =>
                    /\ call.outcome.t = "throw"
                    /\ Len(codes) \in { 0, received + 1 }
              /\ call.pc = "done" =>
                    /\ codes = known
                    /\ received = Len(known)
                    /\ call.outcome.t = "return"
                    /\ Len(call.outcome.v.accounts) = Len(known)
                    /\ \A n \in 1..Len(known) :
                         LET entry == call.outcome.v.accounts[n]
                             f == ReportedIn(call.outcome.v.info.v[n], known[n])
                         IN  /\ entry.code = known[n]
                             /\ entry.account.free = f.available
                             /\ entry.account.total = f.total
                             /\ entry.account.used = Num(0)

\* A fetchBalance without a currency has returned the accounts of DPP and
\* ETH, the first with an available that is not its total; another has
\* failed on its second request.
C9_Witness ==
    /\ \E p \in Made :
         /\ calls[p].op = "fetchBalance" /\ calls[p].arg = Undefined
         /\ calls[p].pc = "done"
         /\ Len(calls[p].outcome.v.accounts) = 2
         /\ calls[p].outcome.v.accounts[1].account.free = Decimal(15, 1)
         /\ calls[p].outcome.v.accounts[1].account.total = Num(2)
         /\ calls[p].outcome.v.accounts[2].code = "ETH"
    /\ \E p \in Made :
         /\ calls[p].op = "fetchBalance" /\ calls[p].arg = Undefined
         /\ calls[p].pc = "failed"
         /\ Len(RequestedCodes(calls[p])) = 2

\* C10: in every call of fetchOrderBook, fetchTicker, fetchTrades and
\* createOrder the load of the catalog is complete before the symbol is
\* resolved to the pair id and before the request of the operation is sent;
\* none of them sends its request while the catalog is not loaded.
C10_CatalogLoadedBeforeSymbolResolved ==
    \A p \in Made :
       calls[p].op \in SymbolOperations =>
          /\ calls[p].catalogAtResolve \in { "unresolved", "loaded" }
          /\ calls[p].catalogAtResolve = "loaded" => markets # Undefined
          /\ calls[p].pc \in { "awaitResponse", "done" } =>
                calls[p].catalogAtResolve = "loaded"
          /\ \A n \in 1..Len(OwnRequests(calls[p])) :
                /\ calls[p].catalogAtResolve = "loaded"
                /\ MarketOfSymbol(markets, calls[p].arg) # Undefined
                /\ LET params == OwnRequests(calls[p])[n].url.params
                       id == MarketOfSymbol(markets, calls[p].arg).id
                   IN  IF calls[p].op = "createOrder" THEN params.tradingPair = id
                       ELSE params.pair = id

\* A fetchTicker that loaded the catalog itself has returned, and a
\* createOrder that found it loaded has sent its request.
C10_Witness ==
    /\ \E p \in Made :
         /\ calls[p].op = "fetchTicker"
         /\ calls[p].pc = "done"
         /\ Len(calls[p].sent) = 2
    /\ \E p \in Made :
         /\ calls[p].op = "createOrder"
         /\ calls[p].pc = "awaitResponse"
         /\ Len(calls[p].sent) = 1

=============================================================================
